---------------------------- MODULE Spec2Model ----------------------------
(***************************************************************************)
(* Bite & Fight (src/bot.py): the per-channel game sessions, the lobby     *)
(* timers, the round loop and the JSON ledgers, as a state machine.        *)
(*                                                                         *)
(* The program is single-threaded asyncio code: a coroutine runs without   *)
(* interruption from one `await` to the next.  Every action below is one   *)
(* such uninterrupted segment (a command handler up to its first await, or *)
(* a coroutine from one await to the next), except that the synchronous    *)
(* body of a round is split into one step per attacker; while a round is   *)
(* being resolved (pc "attack") no other action is enabled (see Idle).     *)
(***************************************************************************)
EXTENDS Integers, Sequences, FiniteSets, TLC

(* ----------------------------- bounds --------------------------------- *)
\* number of BiteFightGame objects ever created (bf_start calls accepted)
MaxSessions == 2
\* cap on round_num: a round starts only while round_num < MaxRounds
MaxRounds == 6
\* number of distinct tournament ids (timestamps, one per second) available
MaxTid == 1
\* number of entries the prize ledger document holds
MaxPrize == 4
\* ids on a leaderboard
MaxBoard == 11
\* size of a set up to which every iteration order is tried
MaxShuffle == 3

(* ------------------------ program constants --------------------------- *)
MAX_HP == 100
\* default tournament ante (_tourney_state_load default document)
DEFAULT_ANTE == 100
\* rows[:10]
TOP == 10

None == 0
Rooms == {1, 2}
Humans == {1, 2, 3}
Bots == {4}
Users == Humans \cup Bots
Sessions == 1 .. MaxSessions
Trig == {"timer", "view"}

(* --------------------------- dict helpers ----------------------------- *)
EmptyMap == [x \in {} |-> 0]
Get(d, k, dflt) == IF k \in DOMAIN d THEN d[k] ELSE dflt
Put(d, k, v) == [x \in (DOMAIN d) \cup {k} |-> IF x = k THEN v ELSE d[x]]
\* mutant of bump: overwrites instead of adding
bump_overwrite(dct, key, by) == Put(dct, key, by)
bump(dct, key, by) == Put(dct, key, Get(dct, key, 0) + by)

Range(seq) == {seq[i] : i \in 1 .. Len(seq)}
RECURSIVE MapSum(_)
MapSum(f) ==
  IF DOMAIN f = {} THEN 0
  ELSE LET k == CHOOSE x \in DOMAIN f : TRUE
       IN f[k] + MapSum([x \in (DOMAIN f) \ {k} |-> f[x]])
Perms(S) == {q \in [1 .. Cardinality(S) -> S] : \A i, j \in DOMAIN q : i # j => q[i] # q[j]}

\* mutant of clamp: no lower bound
clamp_nolow(v, lo, hi) == IF v > hi THEN hi ELSE v
clamp(v, lo, hi) ==
  LET m == IF hi < v THEN hi ELSE v IN IF lo > m THEN lo ELSE m

VARIABLES
  GAMES,      \* room -> session object (None: no entry)
  nobj,       \* number of BiteFightGame objects created so far
  game,       \* session object -> its fields
  co,         \* session -> trigger -> the coroutine started by that trigger
  attackers,  \* run_game's local: attackers still to act in the round being resolved
  order,      \* the shuffled attacker list of the round being resolved
  events,     \* run_game's local: the events of the round being resolved
  stats,      \* lifetime stats document
  tstate,     \* tournament state document
  tstats,     \* per-tournament stats document: tid -> record
  lastTid,    \* the latest timestamp a tournament id was made from
  ending,     \* the state document a bf_tourney_end holds while its leaderboard is sent
  prizes,     \* the prize ledger document: seq, open and closed entries
  hist        \* per session: what has happened to it (observers, never read by actions)

vars == <<GAMES, nobj, game, co, attackers, order, events, stats, tstate, tstats, lastTid, ending, prizes, hist>>

(* ------------------------- documents' defaults ------------------------ *)
StatsDefault == [global |-> [wins |-> EmptyMap, kills |-> EmptyMap], guilds |-> EmptyMap]
TStateDefault ==
  [active |-> FALSE, id |-> None, ante |-> DEFAULT_ANTE,
   games_target |-> 0, games_played |-> 0, prize_mode |-> "credits",
   mixed_credits_pct |-> 70]
TSDefault == [wins |-> EmptyMap, kills |-> EmptyMap, credits_won |-> EmptyMap, games |-> 0, pots |-> 0]
GuildDefault == [wins |-> EmptyMap, kills |-> EmptyMap]
\* _prizes_load's default document
PrizesDefault == [seq |-> 0, open |-> <<>>, closed |-> <<>>]
\* ctx.guild.id of a channel: every room of the model is in the one guild 1
GuildOf(r) == 1

(* ------------------------------ sessions ------------------------------ *)
\* BiteFightGame.__init__: the tournament context is read from the state document
NewGame(chan, ts) ==
  [channel |-> chan, in_lobby |-> FALSE, running |-> FALSE, players |-> <<>>,
   hp |-> EmptyMap, bleed |-> EmptyMap, round_num |-> 0, ctx |-> None,
   kills |-> EmptyMap,
   is_tournament |-> ts.active,
   entry_fee |-> IF ts.active THEN ts.ante ELSE 0,
   pot |-> 0, buyins |-> EmptyMap]

\* mutant of reset: keeps the running flag
reset_keeps_running(g, ts) == [NewGame(g.channel, ts) EXCEPT !.running = g.running]
\* BiteFightGame.reset: everything but the channel is reinitialised
reset(g, ts) == NewGame(g.channel, ts)

NoCo == [pc |-> "none", game |-> None]
Blank == NewGame(None, TStateDefault)
\* what has happened to a session object: a stop was accepted for it; how
\* often a begin flipped it to running; the cancellation of a begin that found
\* too few players ("no", "pending": its message is being sent, "done": it has
\* reset the session, "failed": the message raised); how often its finish step
\* wrote the ledgers; it crashed; a round was resolved for it; which rendering
\* of the current round raised ("ok": none, "card": build_versus_card,
\* "panel": build_hp_panel_image); for the match in progress (forgotten on
\* reset) the killing hits per attacker and the number of bleed deaths; and
\* the id of the tournament that was active when the object was created (None
\* when there was none)
HistInit ==
  [stopped |-> FALSE, begun |-> 0, cancel |-> "no", fin |-> 0,
   crashed |-> FALSE, played |-> FALSE, render |-> "ok",
   killHits |-> EmptyMap, bleedDeaths |-> 0, tid |-> None]
\* the id of the tournament a new session object is created under
TidOf(ts) == IF ts.active THEN ts.id ELSE None
WasReset(h) == [h EXCEPT !.killHits = EmptyMap, !.bleedDeaths = 0]

alive_players(g) == SelectSeq(g.players, LAMBDA p : Get(g.hp, p, 0) > 0)
AliveSet(g) == {p \in Range(g.players) : Get(g.hp, p, 0) > 0}

\* no round is being resolved: the synchronous body of a round is not interleaved
Idle == \A s \in Sessions, t \in Trig : co[s][t].pc # "attack"

Init ==
  /\ GAMES = [r \in Rooms |-> None]
  /\ nobj = 0
  /\ game = [s \in Sessions |-> Blank]
  /\ co = [s \in Sessions |-> [t \in Trig |-> NoCo]]
  /\ attackers = <<>>
  /\ order = <<>>
  /\ events = <<>>
  /\ stats = StatsDefault
  /\ tstate = TStateDefault
  /\ tstats = EmptyMap
  /\ lastTid = 0
  /\ ending = <<>>
  /\ prizes = PrizesDefault
  /\ hist = [s \in Sessions |-> HistInit]

(* ------------------------------ bf_start ------------------------------ *)
\* mutant of StartAllowed: no check of the room's current session
StartAllowed_nocheck(r) == TRUE
\* bf_start's guard: the room has no session in lobby or running
StartAllowed(r) ==
  ~(GAMES[r] # None /\ (game[GAMES[r]].in_lobby \/ game[GAMES[r]].running))

\* an object nothing refers to once room r's entry is replaced: it is no other
\* room's entry and none of its coroutines is alive.  Such an object is
\* forgotten (garbage-collected) when the next object is made.
Garbage(x, r) ==
  /\ x <= nobj
  /\ \A q \in Rooms \ {r} : GAMES[q] # x
  /\ \A t \in Trig : co[x][t].pc = "done"

\* bf_start: a new object replaces the room's entry, opens its lobby and gets
\* its view (timeout 30 s) and its lobby_timer task.  The handler's one await
\* (sending the lobby message) comes after all of its writes to the session;
\* what follows it only stores the message and creates the timer task.
bf_start(r, maxobj) ==
  /\ Idle
  /\ nobj < maxobj
  /\ StartAllowed(r)
  /\ LET s == nobj + 1
         gone == {x \in Sessions : Garbage(x, r)}
     IN
       /\ nobj' = s
       /\ GAMES' = [GAMES EXCEPT ![r] = s]
       /\ game' = [x \in Sessions |->
                    IF x = s THEN [NewGame(r, tstate) EXCEPT !.in_lobby = TRUE, !.ctx = r]
                    ELSE IF x \in gone THEN Blank ELSE game[x]]
       /\ co' = [x \in Sessions |->
                  IF x = s THEN [t \in Trig |-> [pc |-> "wait", game |-> None]]
                  ELSE IF x \in gone THEN [t \in Trig |-> NoCo] ELSE co[x]]
       /\ hist' = [x \in Sessions |->
                    IF x = s THEN [HistInit EXCEPT !.tid = TidOf(tstate)]
                    ELSE IF x \in gone THEN HistInit ELSE hist[x]]
  /\ UNCHANGED <<attackers, order, events, stats, tstate, tstats, lastTid, ending, prizes>>

(* ------------------------- LobbyView.join_btn ------------------------- *)
\* mutant of JoinAllowed: the lobby-open check is dropped
JoinAllowed_anyphase(s, u) == u \notin Bots /\ u \notin Range(game[s].players)
\* mutant of JoinAllowed: the already-joined check is dropped
JoinAllowed_dup(s, u) == game[s].in_lobby /\ u \notin Bots
\* join_btn's three guards
JoinAllowed(s, u) ==
  /\ game[s].in_lobby
  /\ u \notin Bots
  /\ u \notin Range(game[s].players)

\* mutant of Joined: the entry fee is recorded as a buy-in but not added to the pot
Joined_nofee(g, u) ==
  [g EXCEPT !.players = Append(@, u),
            !.hp = Put(@, u, MAX_HP),
            !.buyins = IF g.is_tournament THEN bump(@, u, g.entry_fee) ELSE @]
\* mutant of Joined: the joiner's health is not set to max_hp
Joined_nohp(g, u) ==
  [g EXCEPT !.players = Append(@, u),
            !.pot = IF g.is_tournament THEN @ + g.entry_fee ELSE @,
            !.buyins = IF g.is_tournament THEN bump(@, u, g.entry_fee) ELSE @]
\* join_btn's writes
Joined(g, u) ==
  [g EXCEPT !.players = Append(@, u),
            !.hp = Put(@, u, MAX_HP),
            !.pot = IF g.is_tournament THEN @ + g.entry_fee ELSE @,
            !.buyins = IF g.is_tournament THEN bump(@, u, g.entry_fee) ELSE @]

\* the Join button of session s's lobby view, pressed by u; a view that has
\* timed out dispatches no interaction any more
join_btn(s, u) ==
  /\ Idle
  /\ co[s]["view"].pc = "wait"
  /\ JoinAllowed(s, u)
  /\ game' = [game EXCEPT ![s] = Joined(@, u)]
  /\ UNCHANGED <<GAMES, nobj, co, attackers, order, events, stats, tstate, tstats, lastTid, ending, prizes, hist>>

(* ------------------------------- bf_stop ------------------------------ *)
\* mutant of StopAllowed: any registered session is stopped
StopAllowed_nocheck(r) == GAMES[r] # None
\* bf_stop's guard: the room has a session in lobby or running
StopAllowed(r) ==
  GAMES[r] # None /\ (game[GAMES[r]].in_lobby \/ game[GAMES[r]].running)

\* bf_stop: game.reset(); without an active session only "No active game in
\* this channel." is answered
bf_stop(r) ==
  /\ Idle
  /\ IF StopAllowed(r)
       THEN /\ game' = [game EXCEPT ![GAMES[r]] = reset(@, tstate)]
            /\ hist' = [hist EXCEPT ![GAMES[r]] = [WasReset(@) EXCEPT !.stopped = TRUE]]
       ELSE UNCHANGED <<game, hist>>
  /\ UNCHANGED <<GAMES, nobj, co, attackers, order, events, stats, tstate, tstats, lastTid, ending, prizes>>

(* ------------------------------ bf_begin ------------------------------ *)
\* mutant of EnoughPlayers: one player is enough
EnoughPlayers_one(g) == Len(g.players) >= 1
\* bf_begin's second guard
EnoughPlayers(g) == Len(g.players) >= 2

\* mutant of Begun: the tournament context is read again from the state document
Begun_resnapshot(g) ==
  [g EXCEPT !.in_lobby = FALSE, !.running = TRUE, !.round_num = 0,
            !.is_tournament = tstate.active,
            !.entry_fee = IF tstate.active THEN tstate.ante ELSE 0]
\* mutant of Begun: the lobby flag stays set
Begun_stays_lobby(g) == [g EXCEPT !.running = TRUE, !.round_num = 0]
\* bf_begin's "flip state"
Begun(g) == [g EXCEPT !.in_lobby = FALSE, !.running = TRUE, !.round_num = 0]

\* mutant of BeginAllowed: a running session may be begun again
BeginAllowed_running(g) == g.in_lobby \/ g.running
\* bf_begin's guard on the session it looked up: `not game.in_lobby` returns
BeginAllowed(g) == g.in_lobby

\* bf_begin(ctx) called by trigger t of session s, ctx.channel = r, up to its
\* first await: the guards, then either the cancel message (pc "cancel_send")
\* or the flip to running (pc "intro": the view edit and the intro message)
BeginEntry(s, t, r) ==
  LET g == GAMES[r] IN
  IF g = None \/ ~BeginAllowed(game[g]) THEN
    /\ co' = [co EXCEPT ![s][t] = [pc |-> "done", game |-> None]]
    /\ UNCHANGED <<game, hist>>
  ELSE IF ~EnoughPlayers(game[g]) THEN
    /\ co' = [co EXCEPT ![s][t] = [pc |-> "cancel_send", game |-> g]]
    /\ hist' = [hist EXCEPT ![g].cancel = "pending"]
    /\ UNCHANGED game
  ELSE
    /\ co' = [co EXCEPT ![s][t] = [pc |-> "intro", game |-> g]]
    /\ game' = [game EXCEPT ![g] = Begun(@)]
    /\ hist' = [hist EXCEPT ![g].begun = @ + 1]

\* mutant of TimerLive: the task calls bf_begin whatever its game's phase
TimerLive_nocheck(g) == TRUE
\* lobby_timer's test of its own game after the second sleep
TimerLive(g) == g.in_lobby

\* lobby_timer: after its two sleeps (and the midpoint message) the task calls
\* bf_begin(ctx) if its own game is still in lobby; ctx is bf_start's
lobby_timer(s) ==
  /\ Idle
  /\ co[s]["timer"].pc = "wait"
  /\ IF TimerLive(game[s])
       THEN BeginEntry(s, "timer", game[s].channel)
       ELSE /\ co' = [co EXCEPT ![s]["timer"] = [pc |-> "done", game |-> None]]
            /\ UNCHANGED <<game, hist>>
  /\ UNCHANGED <<GAMES, nobj, attackers, order, events, stats, tstate, tstats, lastTid, ending, prizes>>

\* LobbyView.on_timeout up to its await (editing the lobby message)
on_timeout(s) ==
  /\ Idle
  /\ co[s]["view"].pc = "wait"
  /\ co' = [co EXCEPT ![s]["view"] =
              [pc |-> IF game[s].in_lobby THEN "edit" ELSE "done", game |-> None]]
  /\ UNCHANGED <<GAMES, nobj, game, attackers, order, events, stats, tstate, tstats, lastTid, ending, prizes, hist>>

\* on_timeout after the edit: bf_begin(self.game._ctx); a reset in between has
\* set _ctx to None and ctx.channel raises
on_timeout_begin(s) ==
  /\ Idle
  /\ co[s]["view"].pc = "edit"
  /\ IF game[s].ctx = None
       THEN /\ co' = [co EXCEPT ![s]["view"] = [pc |-> "done", game |-> None]]
            /\ UNCHANGED <<game, hist>>
       ELSE BeginEntry(s, "view", game[s].ctx)
  /\ UNCHANGED <<GAMES, nobj, attackers, order, events, stats, tstate, tstats, lastTid, ending, prizes>>

\* bf_begin after "Not enough players joined. Cancelling." was sent: game.reset()
cancel_sent(s, t) ==
  /\ Idle
  /\ co[s][t].pc = "cancel_send"
  /\ game' = [game EXCEPT ![co[s][t].game] = reset(@, tstate)]
  /\ hist' = [hist EXCEPT ![co[s][t].game] = [WasReset(@) EXCEPT !.cancel = "done"]]
  /\ co' = [co EXCEPT ![s][t].pc = "done"]
  /\ UNCHANGED <<GAMES, nobj, attackers, order, events, stats, tstate, tstats, lastTid, ending, prizes>>

\* the cancel message could not be sent: the exception ends the task before reset
cancel_send_fails(s, t) ==
  /\ Idle
  /\ co[s][t].pc = "cancel_send"
  /\ co' = [co EXCEPT ![s][t].pc = "done"]
  /\ hist' = [hist EXCEPT ![co[s][t].game].cancel = IF @ = "done" THEN @ ELSE "failed"]
  /\ UNCHANGED <<GAMES, nobj, game, attackers, order, events, stats, tstate, tstats, lastTid, ending, prizes>>

\* the view edit and the intro message are out: run_game starts with sleep(2)
intro_sent(s, t) ==
  /\ Idle
  /\ co[s][t].pc = "intro"
  /\ co' = [co EXCEPT ![s][t].pc = "loop"]
  /\ UNCHANGED <<GAMES, nobj, game, attackers, order, events, stats, tstate, tstats, lastTid, ending, prizes, hist>>

\* the intro message could not be sent: bf_begin raises before its try block
intro_send_fails(s, t) ==
  /\ Idle
  /\ co[s][t].pc = "intro"
  /\ co' = [co EXCEPT ![s][t].pc = "done"]
  /\ UNCHANGED <<GAMES, nobj, game, attackers, order, events, stats, tstate, tstats, lastTid, ending, prizes, hist>>

(* ------------------------------ run_game ------------------------------ *)
\* an event of a round: the banter category it was formatted from and the
\* display names bound to [player] / [attacker] / [target]
Event(kind, a, t) == [kind |-> kind, a |-> a, t |-> t]
\* the names an event's text contains, with the code's fallback templates
Mentions(e) ==
  CASE e.kind \in {"bleed_tick", "death_bleed", "bite_miss"} -> {e.a}
    [] e.kind \in {"death_bite", "death_fight"} -> {e.t}
    [] e.kind \in {"bite_hit", "fight_miss", "fight_hit", "fight_crit"} -> {e.a, e.t}
    [] OTHER -> {}

\* _pick_key_play's two inner loops for the event e: the first alive player a
\* (in roster order) and then the first roster member t with another id such
\* that e contains both display names; << >> when there is no such pair
KeyPair(e, g) ==
  LET al == alive_players(g)
      pairs == {pr \in (1 .. Len(al)) \X (1 .. Len(g.players)) :
                  /\ al[pr[1]] # g.players[pr[2]]
                  /\ al[pr[1]] \in Mentions(e)
                  /\ g.players[pr[2]] \in Mentions(e)}
  IN IF pairs = {} THEN <<>>
     ELSE LET f == CHOOSE pr \in pairs :
                     \A q \in pairs : pr[1] < q[1] \/ (pr[1] = q[1] /\ pr[2] <= q[2])
          IN <<al[f[1]], g.players[f[2]]>>

\* mutant of pick_key_play: the events are scanned oldest first
RECURSIVE pick_key_play_oldest(_, _)
pick_key_play_oldest(evs, g) ==
  IF evs = <<>> THEN <<>>
  ELSE LET e == Head(evs)
           pr == KeyPair(e, g)
       IN IF pr # <<>> THEN <<e, pr[1], pr[2]>> ELSE pick_key_play_oldest(Tail(evs), g)
\* _pick_key_play: `for e in reversed(events)`, the first event with a pair is
\* returned with the pair; << >> stands for (None, None, None)
RECURSIVE pick_key_play(_, _)
pick_key_play(evs, g) ==
  IF evs = <<>> THEN <<>>
  ELSE LET e == evs[Len(evs)]
           pr == KeyPair(e, g)
       IN IF pr # <<>> THEN <<e, pr[1], pr[2]>>
          ELSE pick_key_play(SubSeq(evs, 1, Len(evs) - 1), g)

\* mutant of BleedTick: the stack is subtracted twice
BleedTick_twice(g) ==
  [g EXCEPT !.hp = [p \in DOMAIN g.hp |->
      IF p \in AliveSet(g) /\ Get(g.bleed, p, 0) > 0
        THEN clamp(g.hp[p] - 2 * g.bleed[p], 0, MAX_HP)
        ELSE g.hp[p]]]
\* the bleed ticks of one round: every alive player with a positive stack
\* loses the stack, clamped
BleedTick(g) ==
  [g EXCEPT !.hp = [p \in DOMAIN g.hp |->
      IF p \in AliveSet(g) /\ Get(g.bleed, p, 0) > 0
        THEN clamp(g.hp[p] - g.bleed[p], 0, MAX_HP)
        ELSE g.hp[p]]]

RECURSIVE BleedEvents(_, _)
BleedEvents(ps, g) ==
  IF ps = <<>> THEN <<>>
  ELSE LET p == Head(ps)
           ticked == BleedTick(g)
       IN (IF Get(g.bleed, p, 0) > 0
             THEN <<Event("bleed_tick", p, None)>>
                  \o (IF ticked.hp[p] <= 0 THEN <<Event("death_bleed", p, None)>> ELSE <<>>)
             ELSE <<>>)
          \o BleedEvents(Tail(ps), g)

\* one draw of the random numbers of an attack: bite or fight, miss or hit, the
\* damage roll, the bleed stack applied (0: none), critical or not
Draw(bite, miss, dmg, stack, crit) ==
  [bite |-> bite, miss |-> miss, dmg |-> dmg, stack |-> stack, crit |-> crit]
\* the draws the program can make: bite 8..18 with stack 2..5 or none, fight 14..28
ValidDraw(d) ==
  IF d.bite THEN d.dmg \in 8 .. 18 /\ d.stack \in {0} \cup (2 .. 5) /\ ~d.crit
  ELSE d.dmg \in 14 .. 28 /\ d.stack = 0

\* mutant of Damage: a critical hit is not multiplied
Damage_nocrit(d) == d.dmg
\* dmg of a hit: int(base * 1.5) for a critical fight
Damage(d) == IF ~d.bite /\ d.crit THEN (d.dmg * 3) \div 2 ELSE d.dmg

\* mutant of Hit: the damage is added to the target's health
Hit_heals(g, a, tg, d) ==
  LET h == clamp(g.hp[tg] + Damage(d), 0, MAX_HP) IN
  [g EXCEPT !.bleed = IF d.bite /\ d.stack > 0 THEN bump(@, tg, d.stack) ELSE @,
            !.hp = Put(@, tg, h),
            !.kills = IF h <= 0 THEN bump(@, a, 1) ELSE @]
\* mutant of Hit: health is not clamped
Hit_noclamp(g, a, tg, d) ==
  LET h == g.hp[tg] - Damage(d) IN
  [g EXCEPT !.bleed = IF d.bite /\ d.stack > 0 THEN bump(@, tg, d.stack) ELSE @,
            !.hp = Put(@, tg, h),
            !.kills = IF h <= 0 THEN bump(@, a, 1) ELSE @]
\* mutant of Hit: a kill is not credited
Hit_nokill(g, a, tg, d) ==
  LET h == clamp(g.hp[tg] - Damage(d), 0, MAX_HP) IN
  [g EXCEPT !.bleed = IF d.bite /\ d.stack > 0 THEN bump(@, tg, d.stack) ELSE @,
            !.hp = Put(@, tg, h)]
\* a bite or fight that does not miss
Hit(g, a, tg, d) ==
  LET h == clamp(g.hp[tg] - Damage(d), 0, MAX_HP) IN
  [g EXCEPT !.bleed = IF d.bite /\ d.stack > 0 THEN bump(@, tg, d.stack) ELSE @,
            !.hp = Put(@, tg, h),
            !.kills = IF h <= 0 THEN bump(@, a, 1) ELSE @]

HitEvents(g2, a, tg, d) ==
  IF d.bite
    THEN IF d.miss THEN <<Event("bite_miss", a, tg)>>
         ELSE <<Event("bite_hit", a, tg)>>
              \o (IF g2.hp[tg] <= 0 THEN <<Event("death_bite", a, tg)>> ELSE <<>>)
    ELSE IF d.miss THEN <<Event("fight_miss", a, tg)>>
         ELSE <<Event(IF d.crit THEN "fight_crit" ELSE "fight_hit", a, tg)>>
              \o (IF g2.hp[tg] <= 0 THEN <<Event("death_fight", a, tg)>> ELSE <<>>)

\* `while game.running:` is false after the sleep: run_game and bf_begin return
loop_exit(s, t) ==
  /\ Idle
  /\ co[s][t].pc = "loop"
  /\ ~game[co[s][t].game].running
  /\ co' = [co EXCEPT ![s][t].pc = "done"]
  /\ UNCHANGED <<GAMES, nobj, game, attackers, order, events, stats, tstate, tstats, lastTid, ending, prizes, hist>>

\* the start of a round: round_num += 1, the bleed ticks, the shuffled attackers
round_start(s, t) ==
  LET g == co[s][t].game
      ticked == BleedTick([game[g] EXCEPT !.round_num = @ + 1])
  IN
  /\ Idle
  /\ co[s][t].pc = "loop"
  /\ game[g].running
  /\ game[g].round_num < MaxRounds
  /\ game' = [game EXCEPT ![g] = ticked]
  /\ events' = BleedEvents(alive_players(game[g]), game[g])
  /\ \E q \in Perms(AliveSet(ticked)) : attackers' = q /\ order' = q
  /\ co' = [co EXCEPT ![s][t].pc = "attack"]
  /\ hist' = [hist EXCEPT ![g].played = TRUE,
                          ![g].render = "ok",
                          ![g].bleedDeaths = @ + Cardinality(AliveSet(game[g]) \ AliveSet(ticked))]
  /\ UNCHANGED <<GAMES, nobj, stats, tstate, tstats, lastTid, ending, prizes>>

\* mutant of Candidates: the attacker is a candidate too
Candidates_self(g, a) == AliveSet(g)
\* mutant of Candidates: every other roster member, dead or alive
Candidates_any(g, a) == Range(g.players) \ {a}
\* pick_target's candidates: the other alive players
Candidates(g, a) == AliveSet(g) \ {a}

\* one iteration of `for attacker in attackers:` with the draw d
attack(s, t, d) ==
  LET g == co[s][t].game
      a == Head(attackers)
      cands == Candidates(game[g], a)
  IN
  /\ co[s][t].pc = "attack"
  /\ attackers # <<>>
  /\ ValidDraw(d)
  /\ IF Get(game[g].hp, a, 0) <= 0 THEN
       \* continue
       /\ attackers' = Tail(attackers)
       /\ UNCHANGED <<game, events, hist>>
     ELSE IF cands = {} THEN
       \* pick_target found nobody: break
       /\ attackers' = <<>>
       /\ UNCHANGED <<game, events, hist>>
     ELSE
       \E tg \in cands :
         LET g2 == IF d.miss THEN game[g] ELSE Hit(game[g], a, tg, d) IN
         /\ attackers' = Tail(attackers)
         /\ game' = [game EXCEPT ![g] = g2]
         /\ events' = events \o HitEvents(g2, a, tg, d)
         /\ hist' = [hist EXCEPT ![g].killHits =
                       IF game[g].hp[tg] > 0 /\ g2.hp[tg] <= 0 THEN bump(@, a, 1) ELSE @]
  /\ UNCHANGED <<GAMES, nobj, co, order, stats, tstate, tstats, lastTid, ending, prizes>>

\* after the attacks: the filler event, the key play, and the first await of
\* the round (the versus card if there is a key play, else the round message)
round_end(s, t) ==
  LET g == co[s][t].game
      evs == IF events = <<>> THEN <<Event("filler", None, None)>> ELSE events
  IN
  /\ co[s][t].pc = "attack"
  /\ attackers = <<>>
  /\ events' = <<>>
  /\ order' = <<>>
  /\ co' = [co EXCEPT ![s][t].pc = IF pick_key_play(evs, game[g]) # <<>> THEN "render" ELSE "send"]
  /\ UNCHANGED <<GAMES, nobj, game, attackers, stats, tstate, tstats, lastTid, ending, prizes, hist>>

\* build_versus_card raised: the exception is swallowed (file = None)
render_fails(s, t) ==
  /\ Idle
  /\ co[s][t].pc = "render"
  /\ co' = [co EXCEPT ![s][t].pc = "send"]
  /\ hist' = [hist EXCEPT ![co[s][t].game].render = "card"]
  /\ UNCHANGED <<GAMES, nobj, game, attackers, order, events, stats, tstate, tstats, lastTid, ending, prizes>>

\* build_versus_card returned
render_done(s, t) ==
  /\ Idle
  /\ co[s][t].pc = "render"
  /\ co' = [co EXCEPT ![s][t].pc = "send"]
  /\ UNCHANGED <<GAMES, nobj, game, attackers, order, events, stats, tstate, tstats, lastTid, ending, prizes, hist>>

\* the round message is out and the HP panel is built: the panel is being sent
round_sent(s, t) ==
  /\ Idle
  /\ co[s][t].pc = "send"
  /\ co' = [co EXCEPT ![s][t].pc = "hp_send"]
  /\ UNCHANGED <<GAMES, nobj, game, attackers, order, events, stats, tstate, tstats, lastTid, ending, prizes, hist>>

\* bf_begin's `except Exception`: game.reset(), then the crash message
Crash(s, t) ==
  /\ game' = [game EXCEPT ![co[s][t].game] = reset(@, tstate)]
  /\ hist' = [hist EXCEPT ![co[s][t].game] = [WasReset(@) EXCEPT !.crashed = TRUE]]
  /\ co' = [co EXCEPT ![s][t].pc = "done"]

\* the round message is out and build_hp_panel_image raised: nothing in
\* run_game catches it, bf_begin's handler resets the session
hp_panel_fails(s, t) ==
  /\ Idle
  /\ co[s][t].pc = "send"
  /\ game' = [game EXCEPT ![co[s][t].game] = reset(@, tstate)]
  /\ hist' = [hist EXCEPT ![co[s][t].game] =
                 [WasReset(@) EXCEPT !.crashed = TRUE, !.render = "panel"]]
  /\ co' = [co EXCEPT ![s][t].pc = "done"]
  /\ UNCHANGED <<GAMES, nobj, attackers, order, events, stats, tstate, tstats, lastTid, ending, prizes>>

\* sending the round message or the HP panel raised
round_send_fails(s, t) ==
  /\ Idle
  /\ co[s][t].pc \in {"send", "hp_send"}
  /\ Crash(s, t)
  /\ UNCHANGED <<GAMES, nobj, attackers, order, events, stats, tstate, tstats, lastTid, ending, prizes>>

(* --------------------------- the finish step -------------------------- *)
\* mutant of MatchOver: the match ends only when nobody is alive
MatchOver_none(g) == Cardinality(AliveSet(g)) = 0
\* mutant of MatchOver: two alive players end the match too
MatchOver_two(g) == Len(alive_players(g)) <= 2
\* the end condition, evaluated after the round's messages
MatchOver(g) == Len(alive_players(g)) <= 1

\* mutant of Winner: the first roster member, alive or not
Winner_first(g) == IF g.players # <<>> THEN g.players[1] ELSE None
\* winner = alive_now[0] if alive_now else None
Winner(g) == IF alive_players(g) # <<>> THEN alive_players(g)[1] ELSE None

\* `for uid, k in game.kills.items(): if k > 0: _bump(dct, uid, k)`
RECURSIVE BumpKills(_, _)
BumpKills(dct, kills) ==
  IF DOMAIN kills = {} THEN dct
  ELSE LET uid == CHOOSE x \in DOMAIN kills : TRUE
           rest == [x \in (DOMAIN kills) \ {uid} |-> kills[x]]
       IN BumpKills(IF kills[uid] > 0 THEN bump(dct, uid, kills[uid]) ELSE dct, rest)

BumpWin(dct, w, by) == IF w # None THEN bump(dct, w, by) ELSE dct

\* "Persist lifetime stats": global and guild wins and kills
FinishStats(st, g) ==
  LET gid == GuildOf(g.channel)
      gs == Get(st.guilds, gid, GuildDefault)
      w == Winner(g)
  IN [global |-> [wins |-> BumpWin(st.global.wins, w, 1),
                  kills |-> BumpKills(st.global.kills, g.kills)],
      guilds |-> Put(st.guilds, gid,
                     [wins |-> BumpWin(gs.wins, w, 1),
                      kills |-> BumpKills(gs.kills, g.kills)])]

\* "TOURNAMENT STATS": the record of the tournament the state document names now
\* mutant of FinishTStats: the games counter of the record is not incremented
FinishTStats_nogames(all, ts, g) ==
  LET tid == ts.id
      rec == Get(all, tid, TSDefault)
      w == Winner(g)
  IN Put(all, tid,
         [wins |-> BumpWin(rec.wins, w, 1),
          credits_won |-> BumpWin(rec.credits_won, w, g.pot),
          kills |-> BumpKills(rec.kills, g.kills),
          games |-> rec.games,
          pots |-> rec.pots + g.pot])
FinishTStats(all, ts, g) ==
  LET tid == ts.id
      rec == Get(all, tid, TSDefault)
      w == Winner(g)
  IN Put(all, tid,
         [wins |-> BumpWin(rec.wins, w, 1),
          credits_won |-> BumpWin(rec.credits_won, w, g.pot),
          kills |-> BumpKills(rec.kills, g.kills),
          games |-> rec.games + 1,
          pots |-> rec.pots + g.pot])

\* mutant of AfterSummary: game.reset() and return are missing
AfterSummary_falls_through(g, ts) == [game |-> g, pc |-> "loop"]
\* after the winner embed: game.reset() and return
AfterSummary(g, ts) == [game |-> reset(g, ts), pc |-> "done"]

\* the HP panel is out and the match is over: the ledgers are written, then
\* the profile card and the winner embed are sent (pc "summary")
finish(s, t) ==
  LET g == co[s][t].game IN
  /\ Idle
  /\ co[s][t].pc = "hp_send"
  /\ MatchOver(game[g])
  /\ stats' = FinishStats(stats, game[g])
  /\ IF game[g].is_tournament
       THEN /\ tstats' = FinishTStats(tstats, tstate, game[g])
            /\ tstate' = [tstate EXCEPT !.games_played = @ + 1]
       ELSE UNCHANGED <<tstats, tstate>>
  /\ hist' = [hist EXCEPT ![g].fin = @ + 1]
  /\ co' = [co EXCEPT ![s][t].pc = "summary"]
  /\ UNCHANGED <<GAMES, nobj, game, attackers, order, events, lastTid, ending, prizes>>

\* the HP panel is out and two or more are alive: sleep(2), then the loop test
round_pause(s, t) ==
  /\ Idle
  /\ co[s][t].pc = "hp_send"
  /\ ~MatchOver(game[co[s][t].game])
  /\ co' = [co EXCEPT ![s][t].pc = "loop"]
  /\ UNCHANGED <<GAMES, nobj, game, attackers, order, events, stats, tstate, tstats, lastTid, ending, prizes, hist>>

\* the winner embed is out: game.reset(); return
summary_sent(s, t) ==
  /\ Idle
  /\ co[s][t].pc = "summary"
  /\ game' = [game EXCEPT ![co[s][t].game] = AfterSummary(@, tstate).game]
  /\ hist' = [hist EXCEPT ![co[s][t].game] = WasReset(@)]
  /\ co' = [co EXCEPT ![s][t].pc = AfterSummary(game[co[s][t].game], tstate).pc]
  /\ UNCHANGED <<GAMES, nobj, attackers, order, events, stats, tstate, tstats, lastTid, ending, prizes>>

\* the profile card or the winner embed could not be sent
summary_fails(s, t) ==
  /\ Idle
  /\ co[s][t].pc = "summary"
  /\ Crash(s, t)
  /\ UNCHANGED <<GAMES, nobj, attackers, order, events, stats, tstate, tstats, lastTid, ending, prizes>>

(* ----------------------------- tournaments ---------------------------- *)
\* mutant of TourneyStartAllowed: a start is accepted while a tournament is active
TourneyStartAllowed_nocheck(ts) == TRUE
\* bf_tourney_start's guard: `if state.get("active"): return ...`
TourneyStartAllowed(ts) == ~ts.active

\* bf_tourney_start: the id is the UTC time to the second; a start while a
\* tournament is active only answers "A tournament is already active"
bf_tourney_start(games, entry) ==
  /\ Idle
  /\ IF TourneyStartAllowed(tstate)
       THEN \E tid \in {lastTid, lastTid + 1} :
              /\ tid >= 1
              /\ tid <= MaxTid
              /\ lastTid' = tid
              /\ tstate' = [active |-> TRUE, id |-> tid, ante |-> entry,
                            games_target |-> games, games_played |-> 0, prize_mode |-> "credits",
                            mixed_credits_pct |-> 70]
              /\ tstats' = Put(tstats, tid, TSDefault)
       ELSE UNCHANGED <<tstate, tstats, lastTid>>
  /\ UNCHANGED <<GAMES, nobj, game, co, attackers, order, events, stats, ending, prizes, hist>>

\* the ids of a set in ascending order
Ascending(S) == [i \in 1 .. Cardinality(S) |-> CHOOSE x \in S : Cardinality({y \in S : y < x}) = i - 1]
\* `for uid in ids`: the order in which a Python set is iterated is not
\* specified; every order for up to MaxShuffle ids, ascending or descending
\* order for more
IterOrders(S) ==
  IF Cardinality(S) <= MaxShuffle THEN Perms(S)
  ELSE {Ascending(S), [i \in 1 .. Cardinality(S) |-> Ascending(S)[Cardinality(S) + 1 - i]]}
\* the ids of the leaderboard: the keys of the wins, credits_won and kills maps
board_ids(st) == DOMAIN st.wins \cup DOMAIN st.credits_won \cup DOMAIN st.kills
\* the rows (uid, wins, credits_won, kills) in iteration order, a missing
\* counter read as 0
board_rows(st, ord) ==
  [i \in 1 .. Len(ord) |-> <<ord[i], Get(st.wins, ord[i], 0), Get(st.credits_won, ord[i], 0),
                             Get(st.kills, ord[i], 0)>>]
\* mutant of SortKey: the rows are sorted by wins only
SortKey_wins(r) == <<0 - r[2], 0, 0>>
\* the sort key `lambda r: (-r[1], -r[2], -r[3])`
SortKey(r) == <<0 - r[2], 0 - r[3], 0 - r[4]>>
\* Python's order of two key tuples
KeyLess(a, b) ==
  \/ a[1] < b[1]
  \/ a[1] = b[1] /\ a[2] < b[2]
  \/ a[1] = b[1] /\ a[2] = b[2] /\ a[3] < b[3]
\* list.sort is stable: a row goes behind the rows whose key is not greater
SortInsert(seq, r) ==
  LET k == Cardinality({i \in 1 .. Len(seq) : ~KeyLess(SortKey(r), SortKey(seq[i]))})
  IN SubSeq(seq, 1, k) \o <<r>> \o SubSeq(seq, k + 1, Len(seq))
RECURSIVE rows_sort(_)
rows_sort(rows) ==
  IF rows = <<>> THEN <<>>
  ELSE SortInsert(rows_sort(SubSeq(rows, 1, Len(rows) - 1)), rows[Len(rows)])
\* `top = rows[:10]` of the sorted rows
leaderboard(st, ord) ==
  LET sorted == rows_sort(board_rows(st, ord))
  IN SubSeq(sorted, 1, IF Len(sorted) < TOP THEN Len(sorted) ELSE TOP)

\* bf_tourney_end up to its await: the state document and the tournament's
\* record are loaded, the leaderboard is built and is being sent
bf_tourney_end ==
  /\ Idle
  /\ tstate.active
  /\ ending = <<>>
  /\ LET st == Get(tstats, tstate.id, TSDefault)
     IN \E ord \in IterOrders(board_ids(st)) :
          ending' = <<tstate, leaderboard(st, ord), "end">>
  /\ UNCHANGED <<GAMES, nobj, game, co, attackers, order, events, stats, tstate, tstats, lastTid, prizes, hist>>

\* mutant of Ended: the id stays in the state document
Ended_keeps_id(ts) == [ts EXCEPT !.active = FALSE]
\* bf_tourney_end's writes to the state document it loaded
Ended(ts) == [ts EXCEPT !.active = FALSE, !.id = None]

\* bf_tourney_end after the leaderboard: the loaded document is saved inactive
tourney_end_sent ==
  /\ Idle
  /\ ending # <<>>
  /\ ending[3] = "end"
  /\ tstate' = Ended(ending[1])
  /\ ending' = <<>>
  /\ UNCHANGED <<GAMES, nobj, game, co, attackers, order, events, stats, tstats, lastTid, prizes, hist>>

\* the leaderboard could not be sent: the command ends before its save
tourney_end_send_fails ==
  /\ Idle
  /\ ending # <<>>
  /\ ending' = <<>>
  /\ UNCHANGED <<GAMES, nobj, game, co, attackers, order, events, stats, tstate, tstats, lastTid, prizes, hist>>

\* bf_tourney_lb up to its await: the same leaderboard of the active
\* tournament, being sent
bf_tourney_lb ==
  /\ Idle
  /\ tstate.active
  /\ ending = <<>>
  /\ LET st == Get(tstats, tstate.id, TSDefault)
     IN \E ord \in IterOrders(board_ids(st)) :
          ending' = <<tstate, leaderboard(st, ord), "lb">>
  /\ UNCHANGED <<GAMES, nobj, game, co, attackers, order, events, stats, tstate, tstats, lastTid, prizes, hist>>

\* bf_tourney_lb after its send: the command is over, nothing is written
tourney_lb_sent ==
  /\ Idle
  /\ ending # <<>>
  /\ ending[3] = "lb"
  /\ ending' = <<>>
  /\ UNCHANGED <<GAMES, nobj, game, co, attackers, order, events, stats, tstate, tstats, lastTid, prizes, hist>>

\* the arguments bf_prize_mode is given: the mode and the credits chance of
\* mixed mode (70 when left out)
PrizeModeArgs == {<<"credits", 70>>, <<"wishlist", 70>>, <<"mixed", 70>>, <<"mixed", 100>>}

\* bf_prize_mode: the mode is stored in the state document of the active
\* tournament (wishlist_count is only displayed)
bf_prize_mode(mode, mixed_credits_pct) ==
  /\ Idle
  /\ tstate.active
  /\ tstate' = [tstate EXCEPT !.prize_mode = mode,
                              !.mixed_credits_pct = clamp(mixed_credits_pct, 0, 100)]
  /\ UNCHANGED <<GAMES, nobj, game, co, attackers, order, events, stats, tstats, lastTid, ending, prizes, hist>>

\* mutant of prize_done: the entry is appended to closed but stays in open
prize_done_keeps_open(L, prize_id) ==
  LET hits == {i \in 1 .. Len(L.open) : L.open[i].id = prize_id} IN
  IF hits = {} THEN [ledger |-> L, reply |-> "not_found"]
  ELSE LET i == CHOOSE k \in hits : \A j \in hits : k <= j IN
       [ledger |-> [L EXCEPT !.closed = Append(@, L.open[i])], reply |-> "marked"]
\* the body of bf_prize_done on the loaded document L: the first open entry
\* with the id moves to the end of the closed list and the document is saved
\* ("Marked prize ... as delivered"); otherwise "Prize ID not found." and no save
prize_done(L, prize_id) ==
  LET hits == {i \in 1 .. Len(L.open) : L.open[i].id = prize_id} IN
  IF hits = {} THEN [ledger |-> L, reply |-> "not_found"]
  ELSE LET i == CHOOSE k \in hits : \A j \in hits : k <= j IN
       [ledger |-> [L EXCEPT !.closed = Append(@, L.open[i]),
                             !.open = SubSeq(@, 1, i - 1) \o SubSeq(@, i + 1, Len(@))],
        reply |-> "marked"]

\* bf_prize_done: load, prize_done, save
bf_prize_done(prize_id) ==
  /\ Idle
  /\ prizes' = prize_done(prizes, prize_id).ledger
  /\ UNCHANGED <<GAMES, nobj, game, co, attackers, order, events, stats, tstate, tstats, lastTid, ending, hist>>

(* --------------------------- specifications --------------------------- *)
\* the draw of Spec and SpecT: a critical fight of base 28 (42 damage)
LifeDraws == {Draw(FALSE, FALSE, 28, 0, TRUE)}
LifeRooms == {1}
LifeUsers == {1, 2, 4}

\* the steps of the coroutines of one session (timers, bf_begin, run_game)
\* with the attack draws D
CoNext(D) ==
  \/ \E s \in Sessions : lobby_timer(s)
  \/ \E s \in Sessions : on_timeout(s)
  \/ \E s \in Sessions : on_timeout_begin(s)
  \/ \E s \in Sessions, t \in Trig : cancel_sent(s, t)
  \/ \E s \in Sessions, t \in Trig : intro_sent(s, t)
  \/ \E s \in Sessions, t \in Trig : loop_exit(s, t)
  \/ \E s \in Sessions, t \in Trig : round_start(s, t)
  \/ \E s \in Sessions, t \in Trig, d \in D : attack(s, t, d)
  \/ \E s \in Sessions, t \in Trig : round_end(s, t)
  \/ \E s \in Sessions, t \in Trig : render_done(s, t)
  \/ \E s \in Sessions, t \in Trig : round_sent(s, t)
  \/ \E s \in Sessions, t \in Trig : finish(s, t)
  \/ \E s \in Sessions, t \in Trig : round_pause(s, t)
  \/ \E s \in Sessions, t \in Trig : summary_sent(s, t)

\* a message could not be sent
FailNext ==
  \/ \E s \in Sessions, t \in Trig : cancel_send_fails(s, t)
  \/ \E s \in Sessions, t \in Trig : intro_send_fails(s, t)
  \/ \E s \in Sessions, t \in Trig : round_send_fails(s, t)
  \/ \E s \in Sessions, t \in Trig : summary_fails(s, t)

\* Spec: casual games in one room, up to MaxSessions session objects
Next ==
  \/ \E r \in LifeRooms : bf_start(r, MaxSessions)
  \/ \E s \in Sessions, u \in LifeUsers : join_btn(s, u)
  \/ \E r \in LifeRooms : bf_stop(r)
  \/ CoNext(LifeDraws)
  \/ FailNext

Spec == Init /\ [][Next]_vars

\* the state after bf_start in room 1 with the tournament state document ts,
\* the last tournament id being tid
InitLobby(ts, tid) ==
  /\ GAMES = [r \in Rooms |-> IF r = 1 THEN 1 ELSE None]
  /\ nobj = 1
  /\ game = [s \in Sessions |->
               IF s = 1 THEN [NewGame(1, ts) EXCEPT !.in_lobby = TRUE, !.ctx = 1] ELSE Blank]
  /\ co = [s \in Sessions |->
             IF s = 1 THEN [t \in Trig |-> [pc |-> "wait", game |-> None]]
             ELSE [t \in Trig |-> NoCo]]
  /\ attackers = <<>>
  /\ order = <<>>
  /\ events = <<>>
  /\ stats = StatsDefault
  /\ tstate = ts
  /\ tstats = IF ts.active THEN Put(EmptyMap, tid, TSDefault) ELSE EmptyMap
  /\ lastTid = tid
  /\ ending = <<>>
  /\ prizes = PrizesDefault
  /\ hist = [s \in Sessions |-> IF s = 1 THEN [HistInit EXCEPT !.tid = TidOf(ts)] ELSE HistInit]

\* SpecT: the life of one session object with the tournament commands; its
\* lobby was opened in casual mode or in a fresh tournament of 1 game, ante 50
InitT ==
  \/ InitLobby(TStateDefault, 0)
  \/ InitLobby([active |-> TRUE, id |-> 1, ante |-> 50, games_target |-> 1,
                games_played |-> 0, prize_mode |-> "credits",
                mixed_credits_pct |-> 70], 1)
NextT ==
  \/ \E s \in Sessions, u \in LifeUsers : join_btn(s, u)
  \/ \E r \in LifeRooms : bf_stop(r)
  \/ CoNext(LifeDraws)
  \/ FailNext
  \/ bf_tourney_start(1, 50)
  \/ bf_tourney_end
  \/ tourney_end_sent
  \/ tourney_end_send_fails
  \/ \E a \in PrizeModeArgs : bf_prize_mode(a[1], a[2])
  \/ bf_prize_done(1)

SpecT == InitT /\ [][NextT]_vars

\* SpecRound: the rounds of a match of three that is under way (the timer
\* began it, the lobby view has timed out since); every kind of attack
RoundDraws ==
  {Draw(TRUE, TRUE, 8, 0, FALSE), Draw(TRUE, FALSE, 18, 0, FALSE),
   Draw(TRUE, FALSE, 8, 5, FALSE), Draw(FALSE, TRUE, 14, 0, FALSE),
   Draw(FALSE, FALSE, 28, 0, FALSE), Draw(FALSE, FALSE, 28, 0, TRUE)}
\* health and bleed stacks of <<1, 2, 3>> after MaxRounds - 2 rounds without a death
RoundStarts ==
  {[hp |-> <<30, 12, 42>>, bleed |-> (2 :> 5)],
   [hp |-> <<4, 3, 50>>, bleed |-> (1 :> 5) @@ (2 :> 5)],
   [hp |-> <<4, 3, 2>>, bleed |-> (1 :> 5) @@ (2 :> 5) @@ (3 :> 2)]}
InitRound ==
  /\ GAMES = [r \in Rooms |-> IF r = 1 THEN 1 ELSE None]
  /\ nobj = 1
  /\ \E st \in RoundStarts :
       game = [s \in Sessions |->
                 IF s = 1
                   THEN [NewGame(1, TStateDefault) EXCEPT
                           !.in_lobby = FALSE, !.running = TRUE, !.ctx = 1,
                           !.players = <<1, 2, 3>>, !.hp = st.hp, !.bleed = st.bleed,
                           !.round_num = MaxRounds - 2]
                   ELSE Blank]
  /\ co = [s \in Sessions |->
             IF s = 1 THEN [t \in Trig |-> [pc |-> IF t = "timer" THEN "loop" ELSE "done", game |-> 1]]
             ELSE [t \in Trig |-> NoCo]]
  /\ attackers = <<>>
  /\ order = <<>>
  /\ events = <<>>
  /\ stats = StatsDefault
  /\ tstate = TStateDefault
  /\ tstats = EmptyMap
  /\ lastTid = 0
  /\ ending = <<>>
  /\ prizes = PrizesDefault
  /\ hist = [s \in Sessions |->
               IF s = 1 THEN [HistInit EXCEPT !.begun = 1, !.played = TRUE] ELSE HistInit]
NextRound ==
  \/ \E s \in Sessions, t \in Trig : round_start(s, t)
  \/ \E s \in Sessions, t \in Trig, d \in RoundDraws : attack(s, t, d)
  \/ \E s \in Sessions, t \in Trig : round_end(s, t)
  \/ \E s \in Sessions, t \in Trig : render_done(s, t)
  \/ \E s \in Sessions, t \in Trig : round_sent(s, t)
  \/ \E s \in Sessions, t \in Trig : finish(s, t)
  \/ \E s \in Sessions, t \in Trig : round_pause(s, t)
  \/ \E s \in Sessions, t \in Trig : summary_sent(s, t)

SpecRound == InitRound /\ [][NextRound]_vars

\* SpecA: the life of a casual session object with players 1 and 2 in which
\* every attack is a fight that hits for 20 without a critical
ScenarioDraws == {Draw(FALSE, FALSE, 20, 0, FALSE)}
ScenarioUsers == {1, 2}
NextA ==
  \/ \E s \in Sessions, u \in ScenarioUsers : join_btn(s, u)
  \/ CoNext(ScenarioDraws)

InitA == InitLobby(TStateDefault, 0)
SpecA == InitA /\ [][NextA]_vars

\* SpecLate: the end of a tournament-scoped match of two (entry fee 50, player
\* 1 has just killed player 2 in round 3, the round message is being sent)
\* whose tournament was ended meanwhile, with the tournament commands; no step
\* of it contains a sleep, so all of it can happen within one second of the
\* clock (the ended tournament's own record, under the id Earlier of a second
\* before those the model draws ids from, is left out)
Earlier == 0 - 1
InitLate ==
  /\ GAMES = [r \in Rooms |-> IF r = 1 THEN 1 ELSE None]
  /\ nobj = 1
  /\ game = [s \in Sessions |->
               IF s = 1
                 THEN [NewGame(1, TStateDefault) EXCEPT
                         !.in_lobby = FALSE, !.running = TRUE, !.ctx = 1,
                         !.players = <<1, 2>>, !.hp = (1 :> 40) @@ (2 :> 0),
                         !.kills = (1 :> 1), !.round_num = 3,
                         !.is_tournament = TRUE, !.entry_fee = 50, !.pot = 100,
                         !.buyins = (1 :> 50) @@ (2 :> 50)]
                 ELSE Blank]
  /\ co = [s \in Sessions |->
             IF s = 1 THEN [t \in Trig |-> [pc |-> IF t = "timer" THEN "send" ELSE "done",
                                            game |-> IF t = "timer" THEN 1 ELSE None]]
             ELSE [t \in Trig |-> NoCo]]
  /\ attackers = <<>>
  /\ order = <<>>
  /\ events = <<>>
  /\ stats = StatsDefault
  /\ tstate = Ended([active |-> TRUE, id |-> None, ante |-> 50, games_target |-> 2,
                     games_played |-> 0, prize_mode |-> "credits",
                     mixed_credits_pct |-> 70])
  /\ tstats = EmptyMap
  /\ lastTid = 0
  /\ ending = <<>>
  /\ prizes = PrizesDefault
  /\ hist = [s \in Sessions |->
               IF s = 1 THEN [HistInit EXCEPT !.begun = 1, !.played = TRUE,
                                              !.killHits = (1 :> 1), !.tid = Earlier]
               ELSE HistInit]
NextLate ==
  \/ \E s \in Sessions, t \in Trig : round_sent(s, t)
  \/ \E s \in Sessions, t \in Trig : finish(s, t)
  \/ \E s \in Sessions, t \in Trig : summary_sent(s, t)
  \/ bf_tourney_start(2, 50)
  \/ bf_tourney_end
  \/ tourney_end_sent
  \/ \E a \in PrizeModeArgs : bf_prize_mode(a[1], a[2])

SpecLate == InitLate /\ [][NextLate]_vars

\* SpecPrize: the prize ledger document under bf_prize_done; the document
\* holds open entries with distinct ids out of 1 .. MaxPrize in any order,
\* none closed yet, and the command is given ids 1 .. MaxPrize + 1
PrizeEntry(i) == [id |-> i, type |-> "credits", amount |-> 100, winner_id |-> 1]
PrizeArgs == 1 .. MaxPrize + 1
InitPrize ==
  /\ GAMES = [r \in Rooms |-> None]
  /\ nobj = 0
  /\ game = [s \in Sessions |-> Blank]
  /\ co = [s \in Sessions |-> [t \in Trig |-> NoCo]]
  /\ attackers = <<>>
  /\ order = <<>>
  /\ events = <<>>
  /\ stats = StatsDefault
  /\ tstate = TStateDefault
  /\ tstats = EmptyMap
  /\ lastTid = 0
  /\ ending = <<>>
  /\ \E S \in SUBSET (1 .. MaxPrize) : \E q \in Perms(S) :
       prizes = [seq |-> MaxPrize, open |-> [i \in 1 .. Len(q) |-> PrizeEntry(q[i])],
                 closed |-> <<>>]
  /\ hist = [s \in Sessions |-> HistInit]
NextPrize == \E prize_id \in PrizeArgs : bf_prize_done(prize_id)

SpecPrize == InitPrize /\ [][NextPrize]_vars

\* SpecTwo: the ends of two matches in rooms 1 and 2 (players 1, 2 and 1, 3;
\* the round message of the last round is being sent, player 1 has killed the
\* other and is alive or has bled out) under the tournament Earlier (ante 50);
\* the session of room 2 was created in that tournament or, casual, before it;
\* with the tournament commands.  No step of it contains a sleep
TwoMatch(r, other, hp1, tourney) ==
  [NewGame(r, TStateDefault) EXCEPT
     !.in_lobby = FALSE, !.running = TRUE, !.ctx = r,
     !.players = <<1, other>>, !.hp = (1 :> hp1) @@ (other :> 0),
     !.kills = (1 :> 1), !.round_num = 3,
     !.is_tournament = tourney,
     !.entry_fee = IF tourney THEN 50 ELSE 0,
     !.pot = IF tourney THEN 100 ELSE 0,
     !.buyins = IF tourney THEN (1 :> 50) @@ (other :> 50) ELSE EmptyMap]
InitTwo ==
  /\ GAMES = [r \in Rooms |-> r]
  /\ nobj = 2
  /\ \E hpA \in {0, 40}, hpB \in {0, 40}, tourney \in BOOLEAN :
       /\ game = [s \in Sessions |->
                    IF s = 1 THEN TwoMatch(1, 2, hpA, TRUE) ELSE TwoMatch(2, 3, hpB, tourney)]
       /\ hist = [s \in Sessions |->
                    [HistInit EXCEPT !.begun = 1, !.played = TRUE, !.killHits = (1 :> 1),
                                     !.bleedDeaths = IF game[s].hp[1] = 0 THEN 1 ELSE 0,
                                     !.tid = IF game[s].is_tournament THEN Earlier ELSE None]]
  /\ co = [s \in Sessions |-> [t \in Trig |-> [pc |-> IF t = "timer" THEN "send" ELSE "done",
                                               game |-> IF t = "timer" THEN s ELSE None]]]
  /\ attackers = <<>>
  /\ order = <<>>
  /\ events = <<>>
  /\ stats = StatsDefault
  /\ tstate = [active |-> TRUE, id |-> Earlier, ante |-> 50, games_target |-> 2,
               games_played |-> 0, prize_mode |-> "credits", mixed_credits_pct |-> 70]
  /\ tstats = Put(EmptyMap, Earlier, TSDefault)
  /\ lastTid = 0
  /\ ending = <<>>
  /\ prizes = PrizesDefault
NextTwo ==
  \/ \E s \in Sessions, t \in Trig : round_sent(s, t)
  \/ \E s \in Sessions, t \in Trig : finish(s, t)
  \/ \E s \in Sessions, t \in Trig : summary_sent(s, t)
  \/ bf_tourney_start(2, 50)
  \/ bf_tourney_end
  \/ tourney_end_sent

SpecTwo == InitTwo /\ [][NextTwo]_vars

\* SpecBoard: the leaderboard commands over a tournament record drawn as
\* input: the winners (keys of wins and credits_won) and the killers are sets
\* of ids out of 1 .. MaxBoard, the counters follow patterns with ties
BoardSets == {{}, 1 .. 2, 2 .. 4, 3 .. MaxBoard, 1 .. MaxBoard}
BoardWins == {[u \in 1 .. MaxBoard |-> 1], [u \in 1 .. MaxBoard |-> 1 + (u % 2)]}
BoardCredits == {[u \in 1 .. MaxBoard |-> 100], [u \in 1 .. MaxBoard |-> 50 * (1 + (u % 3))]}
BoardKills == {[u \in 1 .. MaxBoard |-> 1 + (u % 3)], [u \in 1 .. MaxBoard |-> 1 + ((u + 1) % 2)]}
InitBoard ==
  /\ GAMES = [r \in Rooms |-> None]
  /\ nobj = 0
  /\ game = [s \in Sessions |-> Blank]
  /\ co = [s \in Sessions |-> [t \in Trig |-> NoCo]]
  /\ attackers = <<>>
  /\ order = <<>>
  /\ events = <<>>
  /\ stats = StatsDefault
  /\ tstate = [TStateDefault EXCEPT !.active = TRUE, !.id = 1]
  /\ \E W \in BoardSets, K \in BoardSets, w \in BoardWins, c \in BoardCredits, k \in BoardKills :
       tstats = Put(EmptyMap, 1,
                    [wins |-> [u \in W |-> w[u]], credits_won |-> [u \in W |-> c[u]],
                     kills |-> [u \in K |-> k[u]], games |-> 1, pots |-> 100])
  /\ lastTid = 1
  /\ ending = <<>>
  /\ prizes = PrizesDefault
  /\ hist = [s \in Sessions |-> HistInit]
NextBoard ==
  \/ bf_tourney_lb
  \/ tourney_lb_sent
  \/ bf_tourney_end
  \/ tourney_end_sent

SpecBoard == InitBoard /\ [][NextBoard]_vars

\* SpecRender: the life of a casual session object with players 1 and 2 in
\* which the renderings of a round may raise
NextRender ==
  \/ \E s \in Sessions, u \in ScenarioUsers : join_btn(s, u)
  \/ CoNext(LifeDraws)
  \/ \E s \in Sessions, t \in Trig : render_fails(s, t)
  \/ \E s \in Sessions, t \in Trig : hp_panel_fails(s, t)

SpecRender == InitA /\ [][NextRender]_vars

(* ------------------------------- claims -------------------------------- *)
Active(g) == g.in_lobby \/ g.running
NoDup(q) == Cardinality(Range(q)) = Len(q)

\* C1: a room never has more than one session object in Lobby or Running,
\* and no step replaces the registry entry of a room whose session is in
\* Lobby or Running or changes that session's phase, roster, health or pot by
\* creating a session (a start on an active room is rejected)
C1_OneActive ==
  \A r \in Rooms : Cardinality({s \in Sessions : game[s].channel = r /\ Active(game[s])}) <= 1
C1_StartRejected ==
  \A r \in Rooms : (GAMES[r] # None /\ Active(game[GAMES[r]])) =>
     /\ GAMES'[r] = GAMES[r]
     /\ nobj' = nobj
C1_SingleSession == []C1_OneActive /\ [][C1_StartRejected]_vars
\* a second session object of the room is Running while the run_game of the
\* first object is still suspended
C1_Witness ==
  /\ nobj = 2
  /\ game[2].running
  /\ game[2].channel = game[1].channel
  /\ \E t \in Trig : co[1][t].pc \in {"render", "send", "hp_send"}

\* C2: once a stop was accepted for a session, no step writes a ledger
\* document for it (the finish step of its run_game never runs afterwards)
C2_NoLedgerAfterStop ==
  [][\A s \in Sessions : hist[s].stopped => hist'[s].fin <= hist[s].fin]_vars

\* C3: the finish step of a session object runs at most once
C3_FinishOnce == \A s \in Sessions : hist[s].fin <= 1
\* a match was finished after both triggers had tried to begin it
C3_Witness ==
  \E s \in Sessions :
     /\ hist[s].fin = 1
     /\ hist[s].begun = 1
     /\ \A t \in Trig : co[s][t].pc \notin {"wait", "none"}
     /\ stats.global.wins # EmptyMap

\* C6: the roster never holds a player twice, and in the step in which a
\* begin closes the lobby every roster member has health MAX_HP
C6_NoDup == \A s \in Sessions : NoDup(game[s].players)
C6_FullAtBegin ==
  \A s \in Sessions : hist'[s].begun > hist[s].begun =>
     \A i \in 1 .. Len(game'[s].players) :
        Get(game'[s].hp, game'[s].players[i], -1) = MAX_HP
C6_Roster == []C6_NoDup /\ [][C6_FullAtBegin]_vars
\* a lobby of two was closed by a begin
C6_Witness ==
  \E s \in Sessions : hist[s].begun = 1 /\ game[s].running /\ Len(game[s].players) = 2

\* C7: the roster, the pot and the buy-ins of a session change only by a join
\* of a human who is not yet in the roster, made while the session is in
\* Lobby (the joiner is appended with health MAX_HP), or by a reset that
\* empties them; outside Lobby they stay as they are until the reset
IsJoin(g, h) ==
  \E u \in Humans :
     /\ g.in_lobby
     /\ u \notin Range(g.players)
     /\ h.players = Append(g.players, u)
     /\ h.hp = Put(g.hp, u, MAX_HP)
     /\ h.in_lobby
IsEmptied(h) ==
  /\ h.players = << >>
  /\ h.hp = EmptyMap
  /\ h.pot = 0
  /\ h.buyins = EmptyMap
C7_Step ==
  \A s \in Sessions :
     \/ /\ game'[s].players = game[s].players
        /\ game'[s].pot = game[s].pot
        /\ game'[s].buyins = game[s].buyins
        /\ DOMAIN game'[s].hp = DOMAIN game[s].hp
     \/ IsJoin(game[s], game'[s])
     \/ IsEmptied(game'[s])
C7_JoinOnlyInLobby == [][C7_Step]_vars
\* a match of two is running while the lobby view still takes button presses
C7_Witness ==
  \E s \in Sessions :
     /\ game[s].running
     /\ Len(game[s].players) = 2
     /\ co[s]["view"].pc = "wait"
     /\ hist[s].played

\* C8: once the begin that found fewer than 2 players has cancelled the
\* session, the session is neither in Lobby nor Running, its roster, health
\* and pot are empty, no round was or is resolved for it and no ledger
\* document is written for it
C8_Cancelled ==
  \A s \in Sessions : hist'[s].cancel = "done" =>
     /\ ~Active(game'[s])
     /\ game'[s].players = << >>
     /\ game'[s].hp = EmptyMap
     /\ game'[s].pot = 0
     /\ ~hist'[s].played
     /\ hist'[s].fin = 0
C8_CancelIsFinal == [][C8_Cancelled]_vars

\* the finish step of session s is taken
Finishes(s) == hist'[s].fin > hist[s].fin
GuildWins(st, g) == Get(st.guilds, GuildOf(g.channel), GuildDefault).wins
GuildKills(st, g) == Get(st.guilds, GuildOf(g.channel), GuildDefault).kills

\* C4: when the finish step is taken at most one roster member has health
\* above 0; if exactly one has, that player's global and guild wins grow by 1
\* and nobody else's change; if none has, no wins counter and no credits_won
\* counter changes
C4_Step ==
  \A s \in Sessions : Finishes(s) =>
     LET g == game[s]
         al == AliveSet(g)
     IN /\ Cardinality(al) <= 1
        /\ \A u \in Users :
             LET inc == IF al = {u} THEN 1 ELSE 0 IN
             /\ Get(stats'.global.wins, u, 0) = Get(stats.global.wins, u, 0) + inc
             /\ Get(GuildWins(stats', g), u, 0) = Get(GuildWins(stats, g), u, 0) + inc
        /\ al = {} =>
             \A tid \in DOMAIN tstats', u \in Users :
                /\ Get(tstats'[tid].wins, u, 0) = Get(Get(tstats, tid, TSDefault).wins, u, 0)
                /\ Get(tstats'[tid].credits_won, u, 0)
                     = Get(Get(tstats, tid, TSDefault).credits_won, u, 0)
C5_Step ==
  \A s \in Sessions : (Finishes(s) /\ game[s].players # << >>) =>
     LET g == game[s] IN
     /\ \A u \in Users :
          /\ Get(stats'.global.kills, u, 0) - Get(stats.global.kills, u, 0)
               = Get(hist[s].killHits, u, 0)
          /\ Get(GuildKills(stats', g), u, 0) - Get(GuildKills(stats, g), u, 0)
               = Get(hist[s].killHits, u, 0)
     /\ MapSum(hist[s].killHits) + hist[s].bleedDeaths
          = Cardinality(Range(g.players) \ AliveSet(g))
C5_KillsAtFinish == [][C5_Step]_vars
\* a finished match in which one member bled to death and one was killed by a hit
C5_Witness ==
  \E s \in Sessions :
     /\ hist[s].fin = 1
     /\ hist[s].bleedDeaths = 1
     /\ MapSum(hist[s].killHits) = 1
     /\ MapSum(stats.global.kills) = 1

\* C9: every roster member's health is an integer in 0 .. MAX_HP and every
\* bleed stack is an integer that is at least 0
C9_HealthInRange ==
  \A s \in Sessions : \A p \in Range(game[s].players) :
     /\ p \in DOMAIN game[s].hp
     /\ game[s].hp[p] \in 0 .. MAX_HP
     /\ Get(game[s].bleed, p, 0) \in Nat
\* a member with health 4 or less was hit for more and is at 0, another bleeds
C9_Witness ==
  \E s \in Sessions : \E p, q \in Range(game[s].players) :
     /\ game[s].hp[p] = 0
     /\ hist[s].killHits # EmptyMap
     /\ hist[s].bleedDeaths = 0
     /\ game[s].round_num = MaxRounds - 1
     /\ Get(game[s].bleed, q, 0) > 0
     /\ game[s].hp[q] > 0

\* C10: in a casual match of two in which every attack is a fight hitting for
\* 20, the finish step is taken in round 5 and in no other round; the sole
\* survivor of round 5 is the player who acted first in it, the other is at
\* health 0, and the finish step adds 1 to the survivor's lifetime wins
C10_Step ==
  \A s \in Sessions :
     LET g == game[s]
         two == Len(g.players) = 2 /\ ~g.is_tournament
     IN
     /\ (two /\ order # << >> /\ order' = << >> /\ g.round_num = 5) =>
           /\ AliveSet(g) = {order[1]}
           /\ \A p \in Range(g.players) \ {order[1]} : g.hp[p] = 0
     /\ (two /\ Finishes(s)) =>
           /\ g.round_num = 5
           /\ \E w \in Range(g.players) :
                /\ AliveSet(g) = {w}
                /\ Get(stats'.global.wins, w, 0) = Get(stats.global.wins, w, 0) + 1
                /\ Get(GuildWins(stats', g), w, 0) = Get(GuildWins(stats, g), w, 0) + 1
     /\ two => game'[s].round_num <= 5
C10_ScenarioA == [][C10_Step]_vars
\* the match was finished in round 5 by the second roster member
C10_Witness ==
  \E s \in Sessions :
     /\ hist[s].fin = 1
     /\ game[s].round_num = 5
     /\ AliveSet(game[s]) = {game[s].players[2]}
     /\ Get(stats.global.wins, game[s].players[2], 0) = 1

\* the finish step of a tournament-scoped match of session s with winner w
TFinish(s, w) == Finishes(s) /\ game[s].is_tournament /\ AliveSet(game[s]) = {w}
CreditsWon(all, tid, u) == Get(Get(all, tid, TSDefault).credits_won, u, 0)

\* C11: when a tournament-scoped match finishes with a winner and the prize
\* mode is credits, the prize ledger gets a new open entry with the pot as
\* its amount and the incremented sequence number as its id, and the winner's
\* tournament credits_won grows by the pot
C11_Step ==
  \A s \in Sessions, w \in Users :
     (TFinish(s, w) /\ tstate.prize_mode = "credits") =>
        /\ CreditsWon(tstats', tstate.id, w) = CreditsWon(tstats, tstate.id, w) + game[s].pot
        /\ prizes'.seq = prizes.seq + 1
        /\ Len(prizes'.open) = Len(prizes.open) + 1
        /\ prizes'.open[Len(prizes'.open)].id = prizes'.seq
        /\ prizes'.open[Len(prizes'.open)].amount = game[s].pot
C11_PrizeEntryAtFinish == [][C11_Step]_vars

\* C12: when a tournament-scoped match finishes with a winner and the prize
\* mode is wishlist, the winner's tournament credits_won stays as it is while
\* the tournament's wins, games and pots are accumulated
C12_Step ==
  \A s \in Sessions, w \in Users :
     (TFinish(s, w) /\ tstate.prize_mode = "wishlist") =>
        LET old == Get(tstats, tstate.id, TSDefault)
            new == Get(tstats', tstate.id, TSDefault)
        IN /\ Get(new.wins, w, 0) = Get(old.wins, w, 0) + 1
           /\ new.games = old.games + 1
           /\ new.pots = old.pots + game[s].pot
           /\ Get(new.credits_won, w, 0) = Get(old.credits_won, w, 0)
C12_CreditsOnlyInCreditsMode == [][C12_Step]_vars

\* C13: the finish step of a tournament-scoped match with a winner that takes games_played
\* to games_target or beyond, with games_target above 0, leaves the tournament
\* state inactive with no id
C13_Step ==
  \A s \in Sessions :
     (Finishes(s) /\ game[s].is_tournament /\ AliveSet(game[s]) # {} /\ tstate.active
        /\ tstate'.games_target > 0 /\ tstate'.games_played >= tstate'.games_target) =>
        /\ ~tstate'.active
        /\ tstate'.id = None
C13_AutoEnd == [][C13_Step]_vars

\* C14: no session object that was never stopped and never took the
\* cancellation path has both crashed (reset by bf_begin's handler, the crash
\* message reported) and had its ledgers written by the finish step
C14_CrashXorLedger ==
  \A s \in Sessions :
     (~hist[s].stopped /\ hist[s].cancel = "no") =>
        ~(hist[s].crashed /\ hist[s].fin > 0)

\* C15: the step in which a rendering of a round raises (the versus card or
\* the HP panel) leaves the session as it is: Running, with the round's
\* health, bleed and kills, and its round loop goes on to the end condition
C15_Step ==
  \A s \in Sessions :
     (hist'[s].render # hist[s].render /\ hist'[s].render # "ok") =>
        /\ game'[s] = game[s]
        /\ game'[s].running
        /\ \E q \in Sessions, t \in Trig :
              co'[q][t].game = s /\ co'[q][t].pc \in {"send", "hp_send"}
C15_RenderFailureHarmless == [][C15_Step]_vars

\* the coroutines that are inside bf_begin / run_game for session object g and
\* will still resolve a round or evaluate the end condition
RoundLoops(g) ==
  {<<q, t>> \in Sessions \X Trig :
      /\ co[q][t].game = g
      /\ co[q][t].pc \in {"intro", "loop", "attack", "render", "send", "hp_send"}}

\* C16: every Running session object with at least two alive players, that
\* was not stopped and took no cancellation path, has a round loop that can
\* still resolve a round (so that it can reach its finish)
C16_RunningHasLoop ==
  \A s \in Sessions :
     (/\ game[s].running
      /\ Cardinality(AliveSet(game[s])) >= 2
      /\ ~hist[s].stopped
      /\ hist[s].cancel = "no") => RoundLoops(s) # {}

\* the coroutines that are inside bf_begin's begun branch or run_game for
\* session object g
Loops(g) ==
  {<<q, t>> \in Sessions \X Trig :
      /\ co[q][t].game = g
      /\ co[q][t].pc \in {"intro", "loop", "attack", "render", "send", "hp_send", "summary"}}

\* C17: a session object is begun at most once and has at most one round
\* loop; the step that resolves a round adds exactly 1 to round_num, a begin
\* sets it to 0, and no other step changes it except a reset to 0
C17_OneLoop ==
  \A s \in Sessions : hist[s].begun <= 1 /\ Cardinality(Loops(s)) <= 1
C17_RoundStep ==
  \A s \in Sessions :
     /\ (\E q \in Sessions, t \in Trig :
            co[q][t].game = s /\ co[q][t].pc = "loop" /\ co'[q][t].pc = "attack")
           => game'[s].round_num = game[s].round_num + 1
     /\ hist'[s].begun > hist[s].begun => game'[s].round_num = 0
     /\ game'[s].round_num \in {game[s].round_num, game[s].round_num + 1, 0}
C17_OneRoundLoop == []C17_OneLoop /\ [][C17_RoundStep]_vars
\* the view timeout found the lobby open and is about to call bf_begin, while
\* the timer task has begun the session and its round loop is in round 2
C17_Witness ==
  \E s \in Sessions :
     /\ hist[s].begun = 1
     /\ co[s]["view"].pc = "edit"
     /\ co[s]["timer"].game = s
     /\ Cardinality(Loops(s)) = 1
     /\ game[s].running
     /\ game[s].round_num = 2

\* C18: the timer task and the view timeout of a session object only ever
\* work on that object (the session bf_begin looks up for them is their own),
\* and a step of theirs leaves every other session object as it is
C18_OwnSession ==
  \A s \in Sessions, t \in Trig : co[s][t].game \in {None, s}
C18_Step ==
  \A s \in Sessions :
     (co'[s] # co[s] /\ nobj' = nobj) =>
        \A g \in Sessions \ {s} : game'[g] = game[g]
C18_StaleCountdown == []C18_OwnSession /\ [][C18_Step]_vars
\* the view timeout of the first session object found its lobby open and is
\* about to call bf_begin; the object was stopped meanwhile, its timer task
\* has ended, and a second lobby with two players is open in the same room
C18_Witness ==
  /\ nobj = 2
  /\ game[2].channel = game[1].channel
  /\ game[2].in_lobby
  /\ Len(game[2].players) = 2
  /\ hist[1].stopped
  /\ hist[2].begun = 0
  /\ co[1]["view"].pc = "edit"
  /\ co[1]["timer"].pc = "done"
  /\ \A t \in Trig : co[2][t].pc = "wait"

\* C19: a step changes a session object's is_tournament or entry_fee only by
\* resetting it (the object is then the reset one for the tournament state
\* document of that moment), whatever the tournament commands do; and a
\* session that is not tournament-scoped has entry fee 0 and pot 0
C19_Step ==
  \A s \in Sessions :
     (\/ game'[s].is_tournament # game[s].is_tournament
      \/ game'[s].entry_fee # game[s].entry_fee)
        => game'[s] = reset(game[s], tstate)
C19_Casual ==
  \A s \in Sessions : ~game[s].is_tournament => game[s].entry_fee = 0 /\ game[s].pot = 0
C19_SnapshotFixed == []C19_Casual /\ [][C19_Step]_vars
\* a lobby opened in casual mode is still open, with two players and pot 0,
\* after a tournament with ante 50 has been started
C19_Witness ==
  \E s \in Sessions :
     /\ game[s].in_lobby
     /\ Len(game[s].players) = 2
     /\ tstate.active
     /\ tstate.ante = 50
     /\ ~game[s].is_tournament
     /\ game[s].entry_fee = 0
     /\ game[s].pot = 0

\* C20: the pot of a session object is its entry fee times the size of its
\* roster, and 0 when the session is not tournament-scoped
C20_Pot ==
  \A s \in Sessions :
     /\ game[s].pot = game[s].entry_fee * Len(game[s].players)
     /\ ~game[s].is_tournament => game[s].pot = 0
\* a tournament-scoped match of two with entry fee 50 is running with pot 100
C20_Witness ==
  \E s \in Sessions :
     /\ game[s].is_tournament
     /\ game[s].running
     /\ game[s].entry_fee = 50
     /\ Len(game[s].players) = 2
     /\ game[s].pot = 100

\* C21: while a tournament is active no step starts another one (the id, the
\* ante and the games target of the state document stay, games_played does
\* not fall, no stats record is emptied, no id is drawn); the step that makes
\* the state document active sets games_played to 0 and stores an empty stats
\* record under the new id, leaving the other records alone
C21_Step ==
  /\ tstate.active =>
       /\ lastTid' = lastTid
       /\ tstate'.active =>
            /\ tstate'.id = tstate.id
            /\ tstate'.ante = tstate.ante
            /\ tstate'.games_target = tstate.games_target
            /\ tstate'.games_played >= tstate.games_played
       /\ \A tid \in DOMAIN tstats :
            /\ tid \in DOMAIN tstats'
            /\ tstats'[tid] = TSDefault => tstats[tid] = TSDefault
  /\ (~tstate.active /\ tstate'.active) =>
       /\ tstate'.games_played = 0
       /\ tstate'.id # None
       /\ tstate'.id \in DOMAIN tstats'
       /\ tstats'[tstate'.id] = TSDefault
       /\ \A tid \in DOMAIN tstats \ {tstate'.id} :
            tid \in DOMAIN tstats' /\ tstats'[tid] = tstats[tid]
C21_TourneyStart == [][C21_Step]_vars
\* a tournament was started after or before a casual match was finished: the
\* state document is active with no game played and an empty stats record
C21_Witness ==
  /\ tstate.active
  /\ tstate.games_played = 0
  /\ tstate.id \in DOMAIN tstats
  /\ tstats[tstate.id] = TSDefault
  /\ stats.global.wins # EmptyMap

\* C22: the end command is taken up only for an active tournament; the step
\* that completes it leaves the stats document as it is and, unless the
\* leaderboard could not be sent, leaves the state document inactive with no
\* id; every step that makes the state document inactive clears the id and
\* changes no stats record; while no tournament is active no end is under way
C22_Step ==
  /\ (ending = <<>> /\ ending' # <<>>) =>
       tstate.active /\ tstate' = tstate /\ tstats' = tstats
  /\ (ending # <<>> /\ ending' = <<>>) =>
       /\ tstats' = tstats
       /\ tstate' = tstate \/ (~tstate'.active /\ tstate'.id = None)
  /\ (tstate.active /\ ~tstate'.active) =>
       tstate'.id = None /\ tstats' = tstats
  /\ ~tstate.active => ending' = <<>>
C22_TourneyEnd == [][C22_Step]_vars
\* a tournament in which a match was finished has been ended: the state
\* document is inactive without id and the tournament's record is retained
C22_Witness ==
  /\ ~tstate.active
  /\ tstate.id = None
  /\ ending = <<>>
  /\ lastTid = 1
  /\ 1 \in DOMAIN tstats
  /\ tstats[1].games = 1
  /\ tstats[1].wins # EmptyMap

\* the tournament ids whose tournament has been closed: they have a stats
\* record and the state document does not name them as the active one
ClosedTids == {tid \in DOMAIN tstats : tid # None /\ ~(tstate.active /\ tstate.id = tid)}

\* C23: no step changes the stats record of a closed tournament
C23_Step ==
  \A tid \in ClosedTids : tid \in DOMAIN tstats' /\ tstats'[tid] = tstats[tid]
C23_ClosedRecordFrozen == [][C23_Step]_vars

\* the ids of a list of ledger entries, and how often an entry occurs in a list
EntryIds(q) == {q[i].id : i \in 1 .. Len(q)}
Count(q, e) == Cardinality({i \in 1 .. Len(q) : q[i] = e})

\* C24: for the ledger document of every state and every id: marking an id
\* that is open answers "marked", leaves the id in closed and not in open,
\* keeps seq and keeps the number of occurrences of every entry in open plus
\* closed, and a second mark of it answers "not_found" and changes nothing;
\* marking an id that is not open answers "not_found" and changes nothing
C24_PrizeDone ==
  \A prize_id \in PrizeArgs :
     LET r == prize_done(prizes, prize_id)
         L == r.ledger
         again == prize_done(L, prize_id)
     IN IF prize_id \in EntryIds(prizes.open)
          THEN /\ r.reply = "marked"
               /\ prize_id \notin EntryIds(L.open)
               /\ prize_id \in EntryIds(L.closed)
               /\ L.seq = prizes.seq
               /\ Len(L.open) = Len(prizes.open) - 1
               /\ Len(L.closed) = Len(prizes.closed) + 1
               /\ \A e \in Range(prizes.open \o prizes.closed) \cup Range(L.open \o L.closed) :
                     Count(L.open \o L.closed, e) = Count(prizes.open \o prizes.closed, e)
               /\ again.reply = "not_found"
               /\ again.ledger = L
          ELSE r.reply = "not_found" /\ r.ledger = prizes
\* entries 1 and 3 are open, entry 2 was marked delivered and then entry 4
C24_Witness ==
  /\ EntryIds(prizes.open) = {1, 3}
  /\ Len(prizes.closed) = 2
  /\ prizes.closed[1].id = 2
  /\ prizes.closed[2].id = 4

\* room r has no session in Lobby
NoLobby(r) == GAMES[r] = None \/ ~game[GAMES[r]].in_lobby

\* C25: a step in which a trigger of session object s fires while s's room
\* has no session in Lobby (a begin that is rejected, or not even called)
\* changes no session object and no ledger document; a step that is not a
\* coroutine's and creates no session (a command or a button) changes no
\* session object that is neither in Lobby nor Running, and the step in which
\* a stop is accepted changes no ledger document
C25_Step ==
  /\ \A s \in Sessions, t \in Trig :
        (/\ co[s][t].pc \in {"wait", "edit"}
         /\ co'[s][t].pc # co[s][t].pc
         /\ NoLobby(game[s].channel))
           => /\ game' = game
              /\ hist' = hist
              /\ <<stats, tstate, tstats, prizes>>' = <<stats, tstate, tstats, prizes>>
  /\ (co' = co /\ nobj' = nobj) =>
        \A s \in Sessions :
           ~Active(game[s]) => game'[s] = game[s] /\ hist'[s] = hist[s]
  /\ (\E s \in Sessions : hist'[s].stopped /\ ~hist[s].stopped) =>
        <<stats, tstate, tstats, prizes>>' = <<stats, tstate, tstats, prizes>>
C25_RejectedNoOp == [][C25_Step]_vars
\* the view timeout of a tournament-scoped session found the lobby open and is
\* about to call bf_begin, but the timer has begun the session meanwhile and
\* its first round is resolved: the room has no session in Lobby
C25_Witness ==
  \E s \in Sessions :
     /\ co[s]["view"].pc = "edit"
     /\ NoLobby(game[s].channel)
     /\ game[s].running
     /\ game[s].is_tournament
     /\ game[s].round_num = 1

\* C26: when a tournament-scoped match finishes with a winner while the prize
\* mode is mixed with a credits chance of 100, the prize is resolved to
\* credits: the prize ledger gets one new open entry, of type credits
C26_Step ==
  \A s \in Sessions, w \in Users :
     (TFinish(s, w) /\ tstate.prize_mode = "mixed" /\ tstate.mixed_credits_pct = 100) =>
        /\ Len(prizes'.open) = Len(prizes.open) + 1
        /\ prizes'.open[Len(prizes'.open)].type = "credits"
C26_MixedAllCredits == [][C26_Step]_vars

\* the step in which the round loop of session object g starts a round (the
\* round number is incremented and the bleed phase is done)
StartsRound(g) ==
  \E q \in Sessions, t \in Trig :
     co[q][t].game = g /\ co[q][t].pc = "loop" /\ co'[q][t].pc = "attack"

\* C27: in the bleed phase every roster member with health h > 0 and bleed
\* stack b > 0 is left with health max(0, h - b), every other member's health
\* stays, and no kill count and no bleed stack changes
C27_Step ==
  \A s \in Sessions : StartsRound(s) =>
     /\ \A p \in Range(game[s].players) :
          LET h == Get(game[s].hp, p, 0)
              b == Get(game[s].bleed, p, 0)
          IN game'[s].hp[p] = IF h > 0 /\ b > 0
                                THEN (IF h - b < 0 THEN 0 ELSE h - b)
                                ELSE h
     /\ game'[s].kills = game[s].kills
     /\ game'[s].bleed = game[s].bleed
     /\ hist'[s].killHits = hist[s].killHits
C27_BleedPhase == [][C27_Step]_vars
\* the bleed phase of a round has just been resolved: two members bled to
\* death, the third (without a stack) kept its health, nobody has a kill
C27_Witness ==
  \E s \in Sessions :
     /\ \E t \in Trig : co[s][t].pc = "attack"
     /\ attackers = order
     /\ Len(order) = 1
     /\ hist[s].bleedDeaths = 2
     /\ game[s].kills = EmptyMap
     /\ \E p \in AliveSet(game[s]) : game[s].hp[p] = 50 /\ Get(game[s].bleed, p, 0) = 0

\* C28: every attack (a step of the attack phase that appends events) is made
\* by a member with health > 0 on another member with health > 0, and a step
\* of the attack phase that appends no event changes no session object (a
\* dead attacker is skipped)
C28_Step ==
  \A s \in Sessions :
     (\E t \in Trig : co[s][t].game = s /\ co[s][t].pc = "attack" /\ co'[s][t].pc = "attack") =>
        IF Len(events') > Len(events)
          THEN LET e == events'[Len(events) + 1] IN
               /\ e.a # e.t
               /\ e.a \in Range(game[s].players)
               /\ e.t \in Range(game[s].players)
               /\ Get(game[s].hp, e.a, 0) > 0
               /\ Get(game[s].hp, e.t, 0) > 0
               /\ \A p \in Range(game[s].players) \ {e.t} :
                     game'[s].hp[p] = game[s].hp[p]
          ELSE game'[s] = game[s]
C28_AliveActAndTarget == [][C28_Step]_vars
\* in the attack phase the next attacker of the shuffled order has health 0:
\* it was killed by a hit earlier in the same round
C28_Witness ==
  \E s \in Sessions :
     /\ \E t \in Trig : co[s][t].game = s /\ co[s][t].pc = "attack"
     /\ attackers # <<>>
     /\ Len(attackers) < Len(order)
     /\ Get(game[s].hp, Head(attackers), 0) = 0
     /\ hist[s].killHits # EmptyMap

\* the step in which the round loop of session object g leaves the attack
\* phase (the event list of the round is complete but for the filler)
EndsRound(g) ==
  \E q \in Sessions, t \in Trig :
     co[q][t].game = g /\ co[q][t].pc = "attack" /\ co'[q][t].pc # "attack"

\* C29: a round is started only for a session with at least 2 members alive,
\* and at the end of the attack phase the round's event list is not empty
C29_Step ==
  \A s \in Sessions :
     /\ StartsRound(s) => Cardinality(AliveSet(game[s])) >= 2
     /\ EndsRound(s) => events # <<>>
C29_TwoAliveAtRoundStart == [][C29_Step]_vars
\* the last round of a match of three has started with two members alive: the
\* third died in the round before, after which the end condition was evaluated
C29_Witness ==
  \E s \in Sessions :
     /\ \E t \in Trig : co[s][t].game = s /\ co[s][t].pc = "attack"
     /\ game[s].round_num = MaxRounds
     /\ Len(game[s].players) = 3
     /\ attackers = order
     /\ Len(order) = 2
     /\ events = <<>>

\* C30: in a step from a Running state of a session object to a Running state
\* of it the roster stays, no member's health grows, no member's bleed stack
\* shrinks, and so a member at health 0 stays there and the number of alive
\* members does not grow
C30_Step ==
  \A s \in Sessions : (game[s].running /\ game'[s].running) =>
     /\ game'[s].players = game[s].players
     /\ \A p \in Range(game[s].players) :
          /\ Get(game'[s].hp, p, 0) <= Get(game[s].hp, p, 0)
          /\ Get(game'[s].bleed, p, 0) >= Get(game[s].bleed, p, 0)
          /\ Get(game[s].hp, p, 0) = 0 => Get(game'[s].hp, p, 0) = 0
     /\ Cardinality(AliveSet(game'[s])) <= Cardinality(AliveSet(game[s]))
C30_Monotone == [][C30_Step]_vars
\* in the last round of a running match one member is at health 0, and
\* another's bleed stack has grown from 5 to 10 by a second bleeding bite
C30_Witness ==
  \E s \in Sessions :
     /\ game[s].running
     /\ game[s].round_num = MaxRounds
     /\ \E p, q \in Range(game[s].players) :
          /\ p # q
          /\ Get(game[s].hp, p, 0) = 0
          /\ Get(game[s].hp, q, 0) > 0
          /\ Get(game[s].bleed, q, 0) = 10

\* event e names some alive player of g and some other roster member
NamesPair(e, g) ==
  \E a \in AliveSet(g), u \in Range(g.players) :
     a # u /\ a \in Mentions(e) /\ u \in Mentions(e)

\* C31: for the event list and the session of every state, the key play is
\* nothing exactly when no event names an alive player and another roster
\* member; otherwise it is the latest such event with an alive attacker and a
\* target that are distinct roster members, both named by the event
C31_KeyPlay ==
  \A s \in Sessions :
     LET g == game[s]
         r == pick_key_play(events, g)
         good == {i \in 1 .. Len(events) : NamesPair(events[i], g)}
     IN IF good = {} THEN r = <<>>
        ELSE /\ Len(r) = 3
             /\ \E i \in good : (\A j \in good : j <= i) /\ r[1] = events[i]
             /\ r[2] \in AliveSet(g)
             /\ r[3] \in Range(g.players)
             /\ r[2] # r[3]
             /\ r[2] \in Mentions(r[1])
             /\ r[3] \in Mentions(r[1])
\* the attack phase of a round is over and the key play is not the round's
\* last event (a death line naming only the target) but one before it
C31_Witness ==
  \E s \in Sessions :
     /\ \E t \in Trig : co[s][t].game = s /\ co[s][t].pc = "attack"
     /\ attackers = <<>>
     /\ Len(events) >= 3
     /\ pick_key_play(events, game[s]) # <<>>
     /\ pick_key_play(events, game[s])[1] # events[Len(events)]
     /\ ~NamesPair(events[Len(events)], game[s])

\* row a ranks strictly above row b: more wins, then more credits_won, then
\* more kills
RanksAbove(a, b) ==
  \/ a[2] > b[2]
  \/ a[2] = b[2] /\ a[3] > b[3]
  \/ a[2] = b[2] /\ a[3] = b[3] /\ a[4] > b[4]
\* the row of player u read off the record st
RowOf(st, u) == <<u, Get(st.wins, u, 0), Get(st.credits_won, u, 0), Get(st.kills, u, 0)>>

\* C32: the leaderboard a bf_tourney_end or bf_tourney_lb builds holds rows of
\* players of the wins, credits_won or kills maps only, each player once with
\* the three counters (0 when missing), no row ranks above an earlier row, it
\* has min(10, number of players) rows and no player left out ranks above a
\* player on it
C32_Step ==
  (ending = <<>> /\ ending' # <<>>) =>
     LET st == Get(tstats, tstate.id, TSDefault)
         ids == board_ids(st)
         B == ending'[2]
     IN /\ Len(B) = IF Cardinality(ids) < TOP THEN Cardinality(ids) ELSE TOP
        /\ \A i \in 1 .. Len(B) : B[i][1] \in ids /\ B[i] = RowOf(st, B[i][1])
        /\ \A i, j \in 1 .. Len(B) : i < j => B[i][1] # B[j][1] /\ ~RanksAbove(B[j], B[i])
        /\ \A u \in ids : (\A i \in 1 .. Len(B) : B[i][1] # u) =>
              \A i \in 1 .. Len(B) : ~RanksAbove(RowOf(st, u), B[i])
C32_Leaderboard == [][C32_Step]_vars
\* a leaderboard of more than 10 players is out, cut to 10 rows, with a
\* player who has kills but no wins and two rows tied on wins
C32_Witness ==
  /\ ending # <<>>
  /\ tstate.active
  /\ LET st == Get(tstats, tstate.id, TSDefault)
     IN /\ Cardinality(board_ids(st)) > TOP
        /\ Len(ending[2]) = TOP
        /\ DOMAIN st.kills \ DOMAIN st.wins # {}
        /\ \E i \in 1 .. TOP - 1 : ending[2][i][2] = ending[2][i + 1][2]
                                   /\ ending[2][i][3] > ending[2][i + 1][3]

\* session s leaves Running by the step
LeavesRunning(s) == game[s].running /\ Len(game[s].players) >= 2 /\ ~game'[s].running

\* C33: a session that is Running with at least 2 players leaves Running only
\* when at most one player is alive, when a stop is accepted for it, or when
\* its match faults; never by the reset of a begin that found too few players
C33_Step ==
  \A s \in Sessions : LeavesRunning(s) =>
     \/ Cardinality(AliveSet(game[s])) <= 1
     \/ ~hist[s].stopped /\ hist'[s].stopped
     \/ ~hist[s].crashed /\ hist'[s].crashed
C33_LeavesRunning == [][C33_Step]_vars

\* C34: when a tournament-scoped match finishes (its session neither stopped
\* nor cancelled meanwhile), no tournament record other than that of the
\* tournament its session was created under is changed or created, and
\* games_played of the state document grows only if that tournament is the
\* active one
C34_Step ==
  \A s \in Sessions :
    (Finishes(s) /\ game[s].is_tournament /\ ~hist[s].stopped /\ hist[s].cancel = "no") =>
     /\ \A k \in DOMAIN tstats' :
           k # hist[s].tid => k \in DOMAIN tstats /\ tstats'[k] = tstats[k]
     /\ tstate'.games_played # tstate.games_played =>
           tstate.active /\ tstate.id = hist[s].tid
C34_OwnTournament == [][C34_Step]_vars

\* C35: while a tournament is active, games_played of the state document
\* equals the games counter of that tournament's record
C35_GamesPlayed ==
  tstate.active => tstate.games_played = Get(tstats, tstate.id, TSDefault).games
\* the first tournament was ended with one match counted, another one was
\* started, and the match of the other room was counted for it
C35_Witness ==
  /\ tstate.active
  /\ tstate.id = 1
  /\ tstate.games_played = 1
  /\ Get(tstats, Earlier, TSDefault).games = 1
  /\ \A s \in Sessions : hist[s].fin = 1

\* C36: a finish step adds exactly 1 to the sum of the global wins if the
\* match has a winner and 0 if it has none, and, for a tournament-scoped match
\* under an active tournament, exactly 1 to games_played of that tournament;
\* no other step changes the global wins, or games_played of a tournament
\* that stays the active one
C36_Step ==
  /\ \A s \in Sessions : Finishes(s) =>
        /\ MapSum(stats'.global.wins) =
             MapSum(stats.global.wins) + (IF AliveSet(game[s]) # {} THEN 1 ELSE 0)
        /\ \A u \in Users : Get(stats'.global.wins, u, 0) >= Get(stats.global.wins, u, 0)
        /\ (game[s].is_tournament /\ tstate.active) =>
              /\ tstate'.active
              /\ tstate'.id = tstate.id
              /\ tstate'.games_played = tstate.games_played + 1
  /\ (\A s \in Sessions : ~Finishes(s)) =>
        /\ stats'.global.wins = stats.global.wins
        /\ (tstate.active /\ tstate'.active /\ tstate'.id = tstate.id) =>
              tstate'.games_played = tstate.games_played
C36_NoLostUpdate == [][C36_Step]_vars
\* player 1 has won in both rooms and both matches counted for the tournament
C36_Witness ==
  /\ Get(stats.global.wins, 1, 0) = 2
  /\ MapSum(stats.global.wins) = 2
  /\ tstate.id = Earlier
  /\ tstate.games_played = 2

\* C37: in every state of a running match the kills credited in the match
\* plus the players who died in a bleed phase are the roster members with
\* health 0, and the kills credited are at most roster size minus 1
C37_Eliminations ==
  \A s \in Sessions : game[s].running =>
     /\ MapSum(game[s].kills) + hist[s].bleedDeaths
          = Cardinality({p \in Range(game[s].players) : Get(game[s].hp, p, 0) = 0})
     /\ MapSum(game[s].kills) <= Len(game[s].players) - 1
\* in the middle of a round of a match of three, one member has bled to death
\* and one was killed by a hit
C37_Witness ==
  \E s \in Sessions :
     /\ game[s].running
     /\ Len(game[s].players) = 3
     /\ \E t \in Trig : co[s][t].game = s /\ co[s][t].pc = "attack"
     /\ MapSum(game[s].kills) = 1
     /\ hist[s].bleedDeaths = 1
     /\ Cardinality(AliveSet(game[s])) = 1

\* C38: a session is never both in Lobby and Running, and while it is Running
\* its roster has at least 2 members, each with a health entry
C38_Phases ==
  \A s \in Sessions :
     /\ ~(game[s].in_lobby /\ game[s].running)
     /\ game[s].running =>
          /\ Len(game[s].players) >= 2
          /\ \A p \in Range(game[s].players) : p \in DOMAIN game[s].hp
\* a begin has just flipped a lobby of two or more to Running: the intro card
\* is being sent and every member is at full health
C38_Witness ==
  \E s \in Sessions :
     /\ game[s].running
     /\ ~game[s].in_lobby
     /\ \E t \in Trig : co[s][t].game = s /\ co[s][t].pc = "intro"
     /\ Len(game[s].players) >= 2
     /\ \A p \in Range(game[s].players) : Get(game[s].hp, p, 0) = MAX_HP
=============================================================================
